---- MODULE Spec2Model ----
(***************************************************************************)
(* A model of the tvm-rs runtime: the thread-local workspace pool          *)
(* (runtime/workspace.rs), the worker pool behind TVMBackendParallelLaunch *)
(* (runtime/threading.rs), the graph executor (runtime/graph.rs) and the   *)
(* tensors of runtime/array.rs.                                            *)
(* Each subsystem has its own specification (SpecWs, SpecPool, SpecGraph,  *)
(* SpecCopy, ...); the variables of the other subsystems keep their        *)
(* initial values.                                                         *)
(***************************************************************************)
EXTENDS Integers, Sequences, FiniteSets, TLC

VARIABLES
  \* ---- runtime/workspace.rs: the thread-local WORKSPACE_POOL
  workspaces,   \* Vec<Allocation>: sequence of [size, align, ptr]
  free,         \* Vec<usize>: indices (0-based, as in the code) of free blocks
  in_use,       \* Vec<usize>: indices (0-based) of blocks handed out
  wsOp,         \* the last C entry point called, its arguments, its results and
                \* the pool as it was before the call
  \* ---- runtime/threading.rs: the thread-local THREAD_POOL and its caller
  num_workers,  \* ThreadPool::num_workers
  queues,       \* ThreadPool::queues: worker -> the tasks in its SPSC queue
  wpc,          \* worker -> where it is in run_worker: "pop", "call", "dec",
                \* "panicked"
  wtask,        \* worker -> the task it popped (while "call" or "dec")
  wstatus,      \* worker -> the status its callback returned (while "dec")
  pending,      \* job -> the value of that job's Arc<AtomicUsize>
  mpc,          \* the thread calling launch: "idle", "push", "wait"
  job,          \* the job being launched: its number, its tasks, the next to push
  launched,     \* req_num_tasks of every launch so far, in order
  returned,     \* number of launches that have returned
  invoked,      \* job -> task_id -> number of completed callback invocations
  \* ---- runtime/graph.rs: one GraphExecutor and the graph it is built from
  graph,        \* the Graph handed to GraphExecutor::new
  gpc,          \* "new" (not built yet), "ready" (built), "failed" (new returned
                \* Err), "panicked" (new panicked), "aborted" (a kernel call
                \* did not return)
  arena,        \* the Allocation made by Storage::new in setup_storages
  tensors,      \* GraphExecutor::tensors
  op_execs,     \* GraphExecutor::op_execs: closures as [func, args]
  dltensors,    \* every DLTensor made while binding arguments
  runPos,       \* the closure run() calls next (1-based)
  curCalls,     \* kernel calls of the run in progress, in order
  runLogs,      \* the kernel calls of every completed run
  \* ---- runtime/array.rs: dst.copy(src) on two tensors
  cpDst,        \* the Tensor copied into, with the bytes of its storage
  cpSrc,        \* the Tensor copied from, with the bytes of its storage
  cpPc,         \* "start" (before the call), "copied", "panicked"
  \* ---- runtime/graph.rs: load_param_dict on one byte string
  pdBytes,      \* the bytes handed to load_param_dict
  pdCase,       \* how the bytes were made: the container they encode and what
                \* was done to the encoding
  pdResult,     \* None before the call, then Some of what it returned
  \* ---- runtime/graph.rs: tvm_str_to_type on one string
  tyInput,      \* the parts the string is made of: kind, bits, lanes
  tyStr,        \* the string handed to tvm_str_to_type
  tyResult,     \* None before the call, then Some of the outcome
  \* ---- runtime/threading.rs: max_concurrency in one environment
  envTvm,       \* env::var("TVM_NUM_THREADS"): None when unset
  envOmp,       \* env::var("OMP_NUM_THREADS"): None when unset
  physCores,    \* num_cpus::get_physical()
  mcResult,     \* None before the call, then Some of the number returned
  \* ---- runtime/threading.rs: the tasks of one job and their barrier
  bNumTasks,    \* num_tasks of the job
  bRounds,      \* how often each task's callback calls the barrier
  bBarrier,     \* the Barrier made by Job::tasks (None before): num_threads,
                \* count, generation_id, and whether it is still allocated
  bHandles,     \* task -> the Arc<Barrier> its penv.sync_handle points to:
                \* whether that Arc still exists
  bTask,        \* task -> where its callback is: pc, barrier calls made,
                \* barrier calls returned from, local_gen of Barrier::wait
  \* ---- runtime/packed_func.rs: one call of a wrapped kernel
  pfArgs,       \* the &[TVMArgValue] the callable is invoked with
  pfEndian,     \* byte order of the target: "little" or "big"
  pfCalls,      \* what the kernel was called with, one record per call
  pfRet         \* None before the call, then Some of the TVMRetValue

wsVars == <<workspaces, free, in_use, wsOp>>

poolVars == <<num_workers, queues, wpc, wtask, wstatus, pending, mpc, job,
              launched, returned, invoked>>

graphVars == <<graph, gpc, arena, tensors, op_execs, dltensors, runPos,
               curCalls, runLogs>>

copyVars == <<cpDst, cpSrc, cpPc>>

\* The variables added to the three subsystems above.
paramVars == <<pdBytes, pdCase, pdResult>>

dtypeVars == <<tyInput, tyStr, tyResult>>

envVars == <<envTvm, envOmp, physCores, mcResult>>

barrierVars == <<bNumTasks, bRounds, bBarrier, bHandles, bTask>>

packedVars == <<pfArgs, pfEndian, pfCalls, pfRet>>

extraVars == <<copyVars, paramVars, dtypeVars, envVars, barrierVars,
               packedVars>>

coreVars == <<wsVars, poolVars, graphVars>>

vars == <<coreVars, extraVars>>

\* ---------------------------------------------------------------------------
\* Option<T>: None is the empty sequence, Some(x) the one-element sequence.
None == <<>>
Some(x) == <<x>>
IsSome(o) == Len(o) = 1
Unwrap(o) == o[1]

\* ===========================================================================
\* runtime/workspace.rs
\* ===========================================================================

\* Most blocks the model lets the pool grow to.
MaxBlocks == 2

\* const WORKSPACE_PAGE_SIZE: usize = 4 << 10
WORKSPACE_PAGE_SIZE == 4096

\* The `size` arguments of TVMBackendAllocWorkspace the model tries (0 asks for
\* a page), and the `dtype_bits_hint` arguments, which the code uses as the
\* alignment.
ReqSizes == {0, 50, 100, 200}
ReqAligns == {4, 8}

\* Heap addresses. 0 is the null pointer; the heap hands out any address that
\* no live Allocation holds.
Ptrs == 1..(MaxBlocks + 1)
NullPtr == 0

\* The pool as one value: the three fields of struct WorkspacePool.
Pool(ws, fr, iu) == [workspaces |-> ws, free |-> fr, in_use |-> iu]

\* Vec::remove(i) with a 1-based position.
RemoveAt(s, i) == SubSeq(s, 1, i - 1) \o SubSeq(s, i + 1, Len(s))

RECURSIVE FirstPos(_, _, _)
\* The first position >= i of s holding x, 0 when there is none.
FirstPos(s, x, i) ==
  IF i > Len(s) THEN 0
  ELSE IF s[i] = x THEN i
  ELSE FirstPos(s, x, i + 1)

\* Vec::remove_item(&x): removes the first element equal to x.
remove_item(s, x) ==
  LET i == FirstPos(s, x, 1) IN IF i = 0 THEN s ELSE RemoveAt(s, i)

\* WorkspacePool::alloc_new: push a new Allocation (at heap address p), push its
\* index on in_use, return its pointer.
alloc_new_keeps_no_record(pool, size, align, p) ==
  [pool |-> Pool(Append(pool.workspaces, [size |-> size, align |-> align, ptr |-> p]),
                 pool.free, pool.in_use),
   ret |-> p]

alloc_new(pool, size, align, p) ==
  LET ws == Append(pool.workspaces, [size |-> size, align |-> align, ptr |-> p])
  IN [pool |-> Pool(ws, pool.free, Append(pool.in_use, Len(ws) - 1)),
      ret |-> ws[(Len(ws) - 1) + 1].ptr]

\* The closure folded over self.free in WorkspacePool::alloc.
alloc_fold_step(pool, size, align, cur_ws_idx, idx) ==
  LET ws_size == pool.workspaces[idx + 1].size
      ws_ok == ws_size >= size /\ pool.workspaces[idx + 1].align = align
  IN IF ~ws_ok THEN cur_ws_idx
     ELSE \* cur_ws_idx.and_then(|cur_idx| Some(..)): None stays None
          IF ~IsSome(cur_ws_idx) THEN None
          ELSE LET cur_idx == Unwrap(cur_ws_idx)
                   cur_size == pool.workspaces[cur_idx + 1].size
               IN Some(IF ws_size < cur_size THEN idx ELSE cur_idx)

RECURSIVE alloc_fold(_, _, _, _, _)
\* self.free.iter().fold(None, ..), from position i on with accumulator acc.
alloc_fold(pool, size, align, acc, i) ==
  IF i > Len(pool.free) THEN acc
  ELSE alloc_fold(pool, size, align,
                  alloc_fold_step(pool, size, align, acc, pool.free[i]), i + 1)

\* WorkspacePool::alloc(size, align); p is the address the heap would give a
\* new Allocation.
alloc(pool, size, align, p) ==
  IF Len(pool.free) = 0 THEN alloc_new(pool, size, align, p)
  ELSE LET idx == alloc_fold(pool, size, align, None, 1)
       IN IF IsSome(idx)
          THEN [pool |-> Pool(pool.workspaces,
                              remove_item(pool.free, Unwrap(idx)),
                              Append(pool.in_use, Unwrap(idx))),
                ret |-> pool.workspaces[Unwrap(idx) + 1].ptr]
          ELSE alloc_new(pool, size, align, p)

RECURSIVE free_find(_, _, _)
\* The loop of WorkspacePool::free: the first position i of in_use whose block
\* has pointer ptr, 0 when the loop ends without a break.
free_find(pool, ptr, i) ==
  IF i > Len(pool.in_use) THEN 0
  ELSE IF pool.workspaces[pool.in_use[i] + 1].ptr = ptr THEN i
  ELSE free_find(pool, ptr, i + 1)

\* WorkspacePool::free(ptr): ok is FALSE for Err("Tried to free nonexistent
\* workspace.").
free_keeps_in_use(pool, ptr) ==
  LET i == free_find(pool, ptr, 1)
  IN IF i = 0
     THEN [pool |-> pool, ok |-> FALSE]
     ELSE [pool |-> Pool(pool.workspaces, Append(pool.free, pool.in_use[i]),
                         pool.in_use),
           ok |-> TRUE]

free_forgets_block(pool, ptr) ==
  LET i == free_find(pool, ptr, 1)
  IN IF i = 0
     THEN [pool |-> pool, ok |-> FALSE]
     ELSE [pool |-> Pool(pool.workspaces, pool.free, RemoveAt(pool.in_use, i)),
           ok |-> TRUE]

WorkspacePool_free(pool, ptr) ==
  LET i == free_find(pool, ptr, 1)
  IN IF i = 0
     THEN [pool |-> pool, ok |-> FALSE]
     ELSE [pool |-> Pool(pool.workspaces,
                         Append(pool.free, pool.in_use[i]),
                         RemoveAt(pool.in_use, i)),
           ok |-> TRUE]

CurPool == Pool(workspaces, free, in_use)
LivePtrs == {workspaces[i].ptr : i \in 1..Len(workspaces)}

\* WorkspacePool::new
WsNew ==
  /\ workspaces = <<>>
  /\ free = <<>>
  /\ in_use = <<>>
  /\ wsOp = [kind |-> "none"]

\* extern "C" fn TVMBackendAllocWorkspace(_, _, size, _, dtype_bits_hint)
TVMBackendAllocWorkspace ==
  \E size \in ReqSizes, dtype_bits_hint \in ReqAligns, p \in Ptrs \ LivePtrs :
    /\ Len(workspaces) < MaxBlocks
    /\ LET nbytes == IF size = 0 THEN WORKSPACE_PAGE_SIZE ELSE size
           r == alloc(CurPool, nbytes, dtype_bits_hint, p)
       IN /\ workspaces' = r.pool.workspaces
          /\ free' = r.pool.free
          /\ in_use' = r.pool.in_use
          /\ wsOp' = [kind |-> "alloc", size |-> nbytes, align |-> dtype_bits_hint,
                      ret |-> r.ret, pre |-> CurPool]
          /\ UNCHANGED <<poolVars, graphVars, extraVars>>

\* extern "C" fn TVMBackendFreeWorkspace(_, _, ptr): the value of the match on
\* the pool's free is dropped by the `;` after WORKSPACE_POOL.with(..), and the
\* function ends with `return 0`.
TVMBackendFreeWorkspace ==
  \E ptr \in Ptrs \cup {NullPtr} :
    LET r == WorkspacePool_free(CurPool, ptr)
    IN /\ workspaces' = r.pool.workspaces
       /\ free' = r.pool.free
       /\ in_use' = r.pool.in_use
       /\ wsOp' = [kind |-> "free", ptr |-> ptr, ok |-> r.ok, ret |-> 0,
                   pre |-> CurPool]
       /\ UNCHANGED <<poolVars, graphVars, extraVars>>

WsNext == TVMBackendAllocWorkspace \/ TVMBackendFreeWorkspace

\* ===========================================================================
\* runtime/threading.rs
\* ===========================================================================

\* Largest value of max_concurrency() the model tries, and the number of
\* launches it follows on one pool.
MaxWorkers == 3
MaxLaunches == 2

\* bounded_spsc_queue::make(2)
QueueCapacity == 2

\* The num_task arguments of TVMBackendParallelLaunch the model tries.
ReqNumTasks == 0..(MaxWorkers + 1)

\* The values a callback may return: 0, or an error status.
Statuses == {0, 1}

Workers == 0..(num_workers - 1)
NoTask == [id |-> -1]

Min(a, b) == IF a < b THEN a ELSE b

\* The first statement of Job::tasks.
num_tasks_unclamped(req_num_tasks, nworkers) ==
  IF req_num_tasks = 0 THEN nworkers ELSE req_num_tasks

NumTasks(req_num_tasks, nworkers) ==
  IF req_num_tasks = 0 THEN nworkers ELSE Min(req_num_tasks, nworkers)

\* Job::tasks: the Vec<Task> it returns. `j` stands for what the tasks share
\* with the job: cb, cdata and the Arc of `pending`.
JobTasks(j, req_num_tasks, nworkers) ==
  LET num_tasks == NumTasks(req_num_tasks, nworkers)
  IN [i \in 1..num_tasks |->
        [id |-> i - 1, num_task |-> num_tasks, job |-> j]]

\* tasks.into_iter().zip(self.queues.iter()): the number of pairs.
ZipLen(tasks) == Min(Len(tasks), num_workers)

\* ThreadPool::new: one queue and one thread per worker; no job yet.
PoolNew(n) ==
  /\ num_workers = n
  /\ queues = [w \in 0..(n - 1) |-> <<>>]
  /\ wpc = [w \in 0..(n - 1) |-> "pop"]
  /\ wtask = [w \in 0..(n - 1) |-> NoTask]
  /\ wstatus = [w \in 0..(n - 1) |-> 0]
  /\ pending = [j \in {} |-> 0]
  /\ mpc = "idle"
  /\ job = [id |-> 0, tasks |-> <<>>, next |-> 1]
  /\ launched = <<>>
  /\ returned = 0
  /\ invoked = [j \in {} |-> 0]

\* TVMBackendParallelLaunch(cb, cdata, num_task) up to the end of job.tasks(..)
\* in ThreadPool::launch: pending is stored, the tasks are built.
TVMBackendParallelLaunch ==
  \E req_num_tasks \in ReqNumTasks :
    /\ mpc = "idle"
    /\ Len(launched) < MaxLaunches
    /\ LET j == Len(launched) + 1
           tasks == JobTasks(j, req_num_tasks, num_workers)
       IN /\ launched' = Append(launched, req_num_tasks)
          /\ pending' = [k \in DOMAIN pending \cup {j} |->
                           IF k = j THEN NumTasks(req_num_tasks, num_workers)
                           ELSE pending[k]]
          /\ invoked' = [k \in DOMAIN invoked \cup {j} |->
                           IF k = j THEN [t \in 0..(MaxWorkers + 1) |-> 0]
                           ELSE invoked[k]]
          /\ job' = [id |-> j, tasks |-> tasks, next |-> 1]
          /\ mpc' = IF ZipLen(tasks) = 0 THEN "wait" ELSE "push"
    /\ UNCHANGED <<num_workers, queues, wpc, wtask, wstatus, returned>>
    /\ UNCHANGED <<wsVars, graphVars, extraVars>>

\* One q.push(task) of ThreadPool::launch; push spins while the queue is full.
LaunchPush_to_first ==
  /\ mpc = "push"
  /\ Len(queues[0]) < QueueCapacity
  /\ queues' = [queues EXCEPT ![0] = Append(@, job.tasks[job.next])]
  /\ job' = [job EXCEPT !.next = @ + 1]
  /\ mpc' = IF job.next + 1 > ZipLen(job.tasks) THEN "wait" ELSE "push"
  /\ UNCHANGED <<num_workers, wpc, wtask, wstatus, pending, launched, returned,
                 invoked>>
  /\ UNCHANGED <<wsVars, graphVars, extraVars>>

LaunchPush ==
  /\ mpc = "push"
  /\ LET w == job.next - 1
     IN /\ Len(queues[w]) < QueueCapacity
        /\ queues' = [queues EXCEPT ![w] = Append(@, job.tasks[job.next])]
  /\ job' = [job EXCEPT !.next = @ + 1]
  /\ mpc' = IF job.next + 1 > ZipLen(job.tasks) THEN "wait" ELSE "push"
  /\ UNCHANGED <<num_workers, wpc, wtask, wstatus, pending, launched, returned,
                 invoked>>
  /\ UNCHANGED <<wsVars, graphVars, extraVars>>

\* Job::wait sees pending = 0 (it yields and polls again otherwise), and launch
\* returns.
JobWait_one_left ==
  /\ mpc = "wait"
  /\ pending[job.id] <= 1
  /\ mpc' = "idle"
  /\ returned' = returned + 1
  /\ UNCHANGED <<num_workers, queues, wpc, wtask, wstatus, pending, job,
                 launched, invoked>>
  /\ UNCHANGED <<wsVars, graphVars, extraVars>>

JobWait ==
  /\ mpc = "wait"
  /\ ~(pending[job.id] > 0)
  /\ mpc' = "idle"
  /\ returned' = returned + 1
  /\ UNCHANGED <<num_workers, queues, wpc, wtask, wstatus, pending, job,
                 launched, invoked>>
  /\ UNCHANGED <<wsVars, graphVars, extraVars>>

\* run_worker: q.pop() returns a task (it blocks on an empty queue).
WorkerPop(w) ==
  /\ wpc[w] = "pop"
  /\ Len(queues[w]) > 0
  /\ wtask' = [wtask EXCEPT ![w] = Head(queues[w])]
  /\ queues' = [queues EXCEPT ![w] = Tail(@)]
  /\ wpc' = [wpc EXCEPT ![w] = "call"]
  /\ UNCHANGED <<num_workers, wstatus, pending, mpc, job, launched, returned,
                 invoked>>
  /\ UNCHANGED <<wsVars, graphVars, extraVars>>

\* run_worker: (task.flambda)(task.id, &task.penv, task.cdata) runs and
\* returns `status`.
WorkerCall(w) ==
  \E status \in Statuses :
    /\ wpc[w] = "call"
    /\ invoked' = [invoked EXCEPT ![wtask[w].job][wtask[w].id] = @ + 1]
    /\ wstatus' = [wstatus EXCEPT ![w] = status]
    /\ wpc' = [wpc EXCEPT ![w] = "dec"]
    /\ UNCHANGED <<num_workers, queues, wtask, pending, mpc, job, launched,
                   returned>>
    /\ UNCHANGED <<wsVars, graphVars, extraVars>>

\* run_worker: task.pending.fetch_sub(1), then the panic on a non-zero status,
\* which ends the thread, or the next turn of the loop.
WorkerDec(w) ==
  /\ wpc[w] = "dec"
  /\ pending' = [pending EXCEPT ![wtask[w].job] = @ - 1]
  /\ wpc' = [wpc EXCEPT ![w] = IF wstatus[w] # 0 THEN "panicked" ELSE "pop"]
  /\ wtask' = [wtask EXCEPT ![w] = NoTask]
  /\ wstatus' = [wstatus EXCEPT ![w] = 0]
  /\ UNCHANGED <<num_workers, queues, mpc, job, launched, returned, invoked>>
  /\ UNCHANGED <<wsVars, graphVars, extraVars>>

PoolNext ==
  \/ TVMBackendParallelLaunch
  \/ LaunchPush
  \/ JobWait
  \/ \E w \in Workers : WorkerPop(w)
  \/ \E w \in Workers : WorkerCall(w)
  \/ \E w \in Workers : WorkerDec(w)

\* ===========================================================================
\* runtime/graph.rs
\* ===========================================================================

\* Strings the code takes apart are sequences of one-character strings.
Lower == {"a", "b", "c", "d", "e", "f", "g", "h", "i", "j", "k", "l", "m",
          "n", "o", "p", "q", "r", "s", "t", "u", "v", "w", "x", "y", "z"}
Upper == {"A", "B", "C", "D", "E", "F", "G", "H", "I", "J", "K", "L", "M",
          "N", "O", "P", "Q", "R", "S", "T", "U", "V", "W", "X", "Y", "Z"}
Alpha == Lower \cup Upper
DigitChars == <<"0", "1", "2", "3", "4", "5", "6", "7", "8", "9">>
IsDigit(c) == \E i \in 1..10 : DigitChars[i] = c
DigitVal(c) == (CHOOSE i \in 1..10 : DigitChars[i] = c) - 1

RECURSIVE alpha1(_, _)
\* nom's alpha1 from position i of s: the position after the last letter.
alpha1(s, i) ==
  IF i <= Len(s) /\ s[i] \in Alpha THEN alpha1(s, i + 1) ELSE i

RECURSIVE digit1(_, _)
\* nom's digit1 from position i of s: the position after the last digit.
digit1(s, i) ==
  IF i <= Len(s) /\ IsDigit(s[i]) THEN digit1(s, i + 1) ELSE i

RECURSIVE ParseDecimal(_, _, _, _)
\* The decimal value of s[i..j-1], with accumulator acc (str::parse).
ParseDecimal(s, i, j, acc) ==
  IF i >= j THEN acc ELSE ParseDecimal(s, i + 1, j, 10 * acc + DigitVal(s[i]))

\* u8::MAX and u16::MAX: parse::<u8>() and parse::<u16>() fail above them.
U8Max == 255
U16Max == 65535

\* The match on type_name in tvm_str_to_type.
TypeCode(type_name) ==
  IF type_name = <<"i", "n", "t">> THEN "kDLInt"
  ELSE IF type_name = <<"u", "i", "n", "t">> THEN "kDLUInt"
  ELSE IF type_name = <<"f", "l", "o", "a", "t">> THEN "kDLFloat"
  ELSE "kDLFloat"

\* tvm_str_to_type: status "ok" with the DataType and the unparsed rest, "err"
\* when a parser fails, "panic" when an unwrap() of parse() fails.
tvm_str_to_type(s) ==
  LET a == alpha1(s, 1)
      b == digit1(s, a)
      has_x == b <= Len(s) /\ s[b] = "x"
      c == IF has_x THEN digit1(s, b + 1) ELSE b
      has_lanes == has_x /\ c > b + 1
      bits == ParseDecimal(s, a, b, 0)
      lanes == IF has_lanes THEN ParseDecimal(s, b + 1, c, 0) ELSE 1
      rest == IF has_lanes THEN c ELSE b
  IN IF a = 1 \/ b = a THEN [status |-> "err"]
     ELSE IF bits > U8Max \/ lanes > U16Max THEN [status |-> "panic"]
     ELSE [status |-> "ok",
           dtype |-> [code |-> TypeCode(SubSeq(s, 1, a - 1)),
                      bits |-> bits, lanes |-> lanes],
           rest |-> SubSeq(s, rest, Len(s))]

RECURSIVE Product(_)
\* shape.iter().product()
Product(shape) ==
  IF shape = <<>> THEN 1 ELSE Head(shape) * Product(Tail(shape))

RECURSIVE SumSeq(_)
\* iter().sum()
SumSeq(q) == IF q = <<>> THEN 0 ELSE Head(q) + SumSeq(Tail(q))

MaxOfSet(S) == CHOOSE x \in S : \A y \in S : y <= x
Max(a, b) == IF a > b THEN a ELSE b
Range(q) == {q[i] : i \in 1..Len(q)}

\* dtypes[i].bits * dtypes[i].lanes >> 3
dtype_size(dtype) == (dtype.bits * dtype.lanes) \div 8

RECURSIVE storage_num_bytes_loop(_, _, _, _, _)
\* The loop of setup_storages that fills storage_num_bytes, from tensor i on.
storage_num_bytes_loop(storage_ids, shapes, dtypes, snb, i) ==
  IF i > Len(storage_ids) THEN snb
  ELSE LET nbytes == dtype_size(dtypes[i]) * Product(shapes[i])
           sid == storage_ids[i]
       IN storage_num_bytes_loop(storage_ids, shapes, dtypes,
            [snb EXCEPT ![sid + 1] = Max(nbytes, snb[sid + 1])], i + 1)

RECURSIVE offsets_loop(_, _, _, _)
\* for i in 0..(offsets.len() - 2) { offsets[i + 1] = offsets[i] +
\* storage_num_bytes[i] }, from i on (i is the code's 0-based index).
offsets_loop(offsets, snb, i, last) ==
  IF i >= last THEN offsets
  ELSE offsets_loop(
         [offsets EXCEPT ![(i + 1) + 1] = offsets[i + 1] + snb[i + 1]],
         snb, i + 1, last)

\* const DEFAULT_ALIGN_BYTES: usize = 4
DEFAULT_ALIGN_BYTES == 4

RECURSIVE IsPowerOfTwo(_)
IsPowerOfTwo(n) ==
  IF n <= 0 THEN FALSE
  ELSE IF n = 1 THEN TRUE
  ELSE n % 2 = 0 /\ IsPowerOfTwo(n \div 2)

\* Allocation::new(size, align): Layout::from_size_align refuses an alignment
\* that is no power of two; the block starts out allocated.
Allocation_new(size, align) ==
  LET alignment == IF IsSome(align) THEN Unwrap(align) ELSE DEFAULT_ALIGN_BYTES
  IN IF IsPowerOfTwo(alignment)
     THEN Some([size |-> size, align |-> alignment, live |-> TRUE])
     ELSE None

\* Allocation::drop: the heap block is released.
Released(a) == [a EXCEPT !.live = FALSE]

\* Storage::clone is not among the repository's sources (Storage derives
\* nothing and has no Clone impl); per the specification a planned tensor
\* holds a View of the arena: a pointer into it that owns nothing.
StorageClone(a) == [kind |-> "View", size |-> a.size]

\* GraphExecutor::setup_storages. status is "ok" with the tensors, "err" for a
\* returned Err, "panic" for a panic (an index out of bounds, offsets.len() - 2
\* below zero, a failed unwrap). `arena` is the Allocation of Storage::new as it
\* is when the function is left: the local `storage` that owns it is dropped
\* there.
setup_storages(g) ==
  IF ~IsSome(g.attrs) THEN [status |-> "err", arena |-> None]
  ELSE
  LET attrs == Unwrap(g.attrs)
      storage_ids == attrs.storage_id
      shapes == attrs.shape
      parsed == [i \in 1..Len(attrs.dltype) |-> tvm_str_to_type(attrs.dltype[i])]
  IN
  IF \E i \in 1..Len(parsed) : parsed[i].status = "panic"
    THEN [status |-> "panic", arena |-> None]
  ELSE IF \E i \in 1..Len(parsed) : parsed[i].status = "err"
    THEN [status |-> "err", arena |-> None]
  ELSE
  LET dtypes == [i \in 1..Len(parsed) |-> parsed[i].dtype]
      n == Len(storage_ids)
      align == IF n = 0 THEN None
               ELSE Some(MaxOfSet({dtypes[i].bits \div 8 : i \in 1..Len(dtypes)}))
      nslots == (IF n = 0 THEN 1 ELSE MaxOfSet(Range(storage_ids))) + 1
  IN
  IF Len(shapes) < n \/ Len(dtypes) < n
    THEN [status |-> "panic", arena |-> None]
  ELSE
  LET storage_num_bytes ==
        storage_num_bytes_loop(storage_ids, shapes, dtypes,
                               [k \in 1..nslots |-> 0], 1)
      alloc_result == Allocation_new(SumSeq(storage_num_bytes), align)
  IN
  IF ~IsSome(alloc_result) THEN [status |-> "err", arena |-> None]
  ELSE
  LET storage == Unwrap(alloc_result)
  IN
  \* offsets[0] = 0 needs one element; offsets.len() - 2 needs two; the loop
  \* reads storage_num_bytes[0 .. offsets.len() - 3]; offsets[storage_id] must
  \* exist.
  IF n < 2 \/ n - 2 > nslots \/ (\E i \in 1..n : storage_ids[i] >= n)
    THEN [status |-> "panic", arena |-> Some(Released(storage))]
  ELSE
  LET offsets == offsets_loop([k \in 1..n |-> 0], storage_num_bytes, 0, n - 2)
  IN [status |-> "ok",
      tensors |-> [i \in 1..n |->
                     [data |-> StorageClone(storage),
                      ctx |-> [device_type |-> "kDLCPU", device_id |-> 0],
                      dtype |-> dtypes[i],
                      shape |-> shapes[i],
                      strides |-> None,
                      byte_offset |-> offsets[storage_ids[i] + 1]]],
      arena |-> Some(Released(storage))]

\* The kernels the module `lib` can resolve (Module::get_function).
LibFunctions == {"f0", "f1", "f2", "f3", "f4"}

\* Graph::entry_index; the caller has checked that node_row_ptr is there.
\* None stands for the panic of an index out of bounds.
entry_index(node_row_ptr, entry) ==
  IF entry.id + 1 > Len(node_row_ptr) THEN None
  ELSE Some(node_row_ptr[entry.id + 1] + entry.index)

\* The arg_indices of one node in setup_op_execs: the inputs through
\* entry_index, chained with node_row_ptr[oi] for oi in 0..num_outputs.
arg_indices(node_row_ptr, node) ==
  [i \in 1..Len(node.inputs) |-> entry_index(node_row_ptr, node.inputs[i])]
  \o [oi \in 1..node.num_outputs |->
        IF oi > Len(node_row_ptr) THEN None ELSE Some(node_row_ptr[oi])]

\* DLTensor::from(&tensors[idx]) (DLTensor::from_tensor, flatten = false) for
\* the tensor at index idx. The value is a temporary of the expression that
\* builds one argument; `live` tells whether it still exists.
DLTensor_from(tns, idx) ==
  [tensor |-> idx,
   data |-> [storage |-> tns[idx + 1].data, offset |-> tns[idx + 1].byte_offset],
   ndim |-> Len(tns[idx + 1].shape),
   dtype |-> tns[idx + 1].dtype,
   byte_offset |-> 0,
   live |-> TRUE]

\* TVMArgValue::from(&mut DLTensor): the handle is the address of the DLTensor;
\* `at` names that DLTensor by its position in dltensors.
TVMArgValue_from(at) == [v_handle |-> at, type_code |-> "kArrayHandle"]

RECURSIVE setup_op_execs_from(_, _, _, _, _)
\* setup_op_execs from node k on; execs and temps are the closures and the
\* DLTensors made so far. Each DLTensor is a temporary that is dropped at the
\* end of the expression that turned it into a TVMArgValue.
setup_op_execs_from(g, tns, k, execs, temps) ==
  IF k > Len(g.nodes) THEN [status |-> "ok", op_execs |-> execs, dltensors |-> temps]
  ELSE
  LET node == g.nodes[k]
      node_row_ptr == Unwrap(g.node_row_ptr)
  IN
  IF node.op = "null" THEN setup_op_execs_from(g, tns, k + 1, execs, temps)
  ELSE IF node.op # "tvm_op" THEN [status |-> "err"]
  ELSE IF node.func_name \notin LibFunctions THEN [status |-> "err"]
  ELSE
  LET idxs == arg_indices(node_row_ptr, node)
  IN
  IF \E i \in 1..Len(idxs) : ~IsSome(idxs[i]) \/ Unwrap(idxs[i]) + 1 > Len(tns)
    THEN [status |-> "panic"]
  ELSE
  LET made == [i \in 1..Len(idxs) |->
                 Released(DLTensor_from(tns, Unwrap(idxs[i])))]
      args == [i \in 1..Len(idxs) |-> TVMArgValue_from(Len(temps) + i)]
  IN setup_op_execs_from(g, tns, k + 1,
       Append(execs, [func |-> node.func_name, args |-> args]),
       temps \o made)

\* GraphExecutor::setup_op_execs
setup_op_execs(g, tns) ==
  IF ~IsSome(g.node_row_ptr) THEN [status |-> "err"]
  ELSE setup_op_execs_from(g, tns, 1, <<>>, <<>>)

\* ---- the graphs the model builds executors from

MaxNodes == 3
MaxTensors == 4
MaxRuns == 2

F32 == <<"f", "l", "o", "a", "t", "3", "2">>
I8 == <<"i", "n", "t", "8">>
FuncNames == <<"f0", "f1", "f2", "f3", "f4">>

RECURSIVE RowPtr(_, _)
\* node_row_ptr of well-formed graphs: the running sum of the nodes' numbers of
\* outputs, starting from `from`.
RowPtr(outs, from) ==
  IF outs = <<>> THEN <<from>>
  ELSE <<from>> \o RowPtr(Tail(outs), from + Head(outs))

NullNode == [op |-> "null", func_name |-> "", num_outputs |-> 1, inputs |-> <<>>]

\* Entries (id, index, version) naming the outputs of the two nodes before the
\* k-th, given those nodes.
EntriesBefore(nodes, k) ==
  {e \in [id : Max(0, k - 3)..(k - 2), index : 0..1, version : {0}] :
     e.index < nodes[e.id + 1].num_outputs}

\* The `inputs` the model tries: up to two distinct entries, in either order.
InputSeqs(E) ==
  {<<>>} \cup {<<e>> : e \in E} \cup {p \in E \X E : p[1] # p[2]}

\* The nodes the model tries at position k (1-based) after the nodes `before`:
\* a "null" node (an input or a parameter), or a "tvm_op" of one or two
\* outputs whose kernel is named after the position.
NodeChoices(before, k) ==
  {NullNode} \cup
  {[op |-> "tvm_op", func_name |-> FuncNames[k], num_outputs |-> o, inputs |-> ins] :
     o \in 1..2, ins \in InputSeqs(EntriesBefore(before, k))}

RECURSIVE NodeSeqs(_)
NodeSeqs(n) ==
  IF n = 0 THEN {<<>>}
  ELSE UNION {{Append(ns, nd) : nd \in NodeChoices(ns, n)} : ns \in NodeSeqs(n - 1)}

Outputs(nodes) == [i \in 1..Len(nodes) |-> nodes[i].num_outputs]

\* A graph as GraphExecutor reads it: nodes, node_row_ptr and the attrs
\* storage_id, shape and dltype (one entry per tensor).
MkGraph(nodes, node_row_ptr, attrs) ==
  [nodes |-> nodes, node_row_ptr |-> node_row_ptr, attrs |-> attrs]

\* attrs that give each of n tensors its own slot, shape [2] and dtype float32.
PlainAttrs(n) ==
  Some([storage_id |-> [i \in 1..n |-> i - 1],
        shape |-> [i \in 1..n |-> <<2>>],
        dltype |-> [i \in 1..n |-> F32]])

\* Graphs that vary in their nodes.
StructGraphs ==
  {MkGraph(ns, Some(RowPtr(Outputs(ns), 0)), PlainAttrs(SumSeq(Outputs(ns)))) :
     ns \in UNION {NodeSeqs(n) : n \in 1..MaxNodes}}

\* Storage ids that use every slot from 0 up to the largest.
DenseIds(n) ==
  {f \in [1..n -> 0..(n - 1)] : Range(f) = 0..MaxOfSet(Range(f))}

\* The (dltype, shape) pairs the model tries: 8 bytes and 4 bytes.
TensorKinds == {[dltype |-> F32, shape |-> <<2>>], [dltype |-> I8, shape |-> <<2, 2>>]}

\* Graphs that vary in their storage plan: n input nodes, n tensors.
StorageGraphsOf(n) ==
  {MkGraph([i \in 1..n |-> NullNode], Some([i \in 1..(n + 1) |-> i - 1]),
           Some([storage_id |-> sid,
                 shape |-> [i \in 1..n |-> kinds[i].shape],
                 dltype |-> [i \in 1..n |-> kinds[i].dltype]])) :
     sid \in DenseIds(n), kinds \in [1..n -> TensorKinds]}

StorageGraphs == UNION {StorageGraphsOf(n) : n \in 1..MaxTensors}

\* Graphs GraphExecutor::new refuses.
OpNode(op, func_name) ==
  [op |-> op, func_name |-> func_name, num_outputs |-> 1,
   inputs |-> <<[id |-> 0, index |-> 0, version |-> 0]>>]

BadGraphs ==
  {MkGraph(<<NullNode, OpNode("tvm_op", "f2")>>, None, PlainAttrs(2)),
   MkGraph(<<NullNode, OpNode("tvm_op", "f2")>>, Some(<<0, 1, 2>>), None),
   MkGraph(<<NullNode, OpNode("_copy", "f2")>>, Some(<<0, 1, 2>>), PlainAttrs(2)),
   MkGraph(<<NullNode, OpNode("tvm_op", "missing")>>, Some(<<0, 1, 2>>), PlainAttrs(2)),
   MkGraph(<<NullNode, NullNode>>, Some(<<0, 1, 2>>),
           Some([storage_id |-> <<0, 1>>, shape |-> <<(<<2>>), (<<2>>)>>,
                 dltype |-> <<F32, (<<"3", "2">>)>>])),
   MkGraph(<<NullNode, NullNode>>, Some(<<0, 1, 2>>),
           Some([storage_id |-> <<0, 1>>, shape |-> <<(<<2>>), (<<2>>)>>,
                 dltype |-> <<F32, (<<"i", "n", "t", "2", "5", "6">>)>>])),
   MkGraph(<<NullNode, NullNode>>, Some(<<0, 1, 2>>),
           Some([storage_id |-> <<0, 1>>, shape |-> <<(<<2>>), (<<2>>)>>,
                 dltype |-> <<(<<"i", "n", "t", "2", "4">>),
                              (<<"i", "n", "t", "2", "4">>)>>]))}

Graphs == StructGraphs \cup StorageGraphs \cup BadGraphs

\* No executor yet.
GraphIdle(g) ==
  /\ graph = g
  /\ gpc = "new"
  /\ arena = None
  /\ tensors = <<>>
  /\ op_execs = <<>>
  /\ dltensors = <<>>
  /\ runPos = 1
  /\ curCalls = <<>>
  /\ runLogs = <<>>

Outcome(status) == IF status = "err" THEN "failed" ELSE "panicked"

\* GraphExecutor::new(graph, lib)
GraphExecutor_new ==
  /\ gpc = "new"
  /\ LET st == setup_storages(graph)
     IN IF st.status # "ok"
        THEN /\ gpc' = Outcome(st.status)
             /\ arena' = st.arena
             /\ UNCHANGED <<tensors, op_execs, dltensors>>
        ELSE LET oe == setup_op_execs(graph, st.tensors)
             IN IF oe.status # "ok"
                THEN /\ gpc' = Outcome(oe.status)
                     /\ arena' = st.arena
                     /\ UNCHANGED <<tensors, op_execs, dltensors>>
                ELSE /\ gpc' = "ready"
                     /\ arena' = st.arena
                     /\ tensors' = st.tensors
                     /\ op_execs' = oe.op_execs
                     /\ dltensors' = oe.dltensors
  /\ UNCHANGED <<graph, runPos, curCalls, runLogs>>
  /\ UNCHANGED <<wsVars, poolVars, extraVars>>

\* Whether a closure hands its kernel a handle to a DLTensor that no longer
\* exists.
PassesDeadHandle(exec) ==
  \E i \in 1..Len(exec.args) : ~dltensors[exec.args[i].v_handle].live

\* What a kernel call can do: return, or, when it is handed a dangling
\* pointer (undefined behaviour), also bring the process down.
KernelOutcomes(exec) ==
  IF PassesDeadHandle(exec) THEN {"returns", "aborts"} ELSE {"returns"}

\* One turn of the for_each in GraphExecutor::run: op_exec() calls
\* func(args.as_slice()).
RunCall_last_first ==
  /\ gpc = "ready"
  /\ Len(runLogs) < MaxRuns
  /\ runPos <= Len(op_execs)
  /\ \E outcome \in KernelOutcomes(op_execs[Len(op_execs) + 1 - runPos]) :
       /\ curCalls' = Append(curCalls, op_execs[Len(op_execs) + 1 - runPos])
       /\ runPos' = runPos + 1
       /\ gpc' = IF outcome = "aborts" THEN "aborted" ELSE gpc
  /\ UNCHANGED <<graph, arena, tensors, op_execs, dltensors, runLogs>>
  /\ UNCHANGED <<wsVars, poolVars, extraVars>>

RunCall ==
  /\ gpc = "ready"
  /\ Len(runLogs) < MaxRuns
  /\ runPos <= Len(op_execs)
  /\ \E outcome \in KernelOutcomes(op_execs[runPos]) :
       /\ curCalls' = Append(curCalls, op_execs[runPos])
       /\ runPos' = runPos + 1
       /\ gpc' = IF outcome = "aborts" THEN "aborted" ELSE gpc
  /\ UNCHANGED <<graph, arena, tensors, op_execs, dltensors, runLogs>>
  /\ UNCHANGED <<wsVars, poolVars, extraVars>>

\* GraphExecutor::run returns: the iterator is exhausted.
RunReturn ==
  /\ gpc = "ready"
  /\ Len(runLogs) < MaxRuns
  /\ runPos > Len(op_execs)
  /\ runLogs' = Append(runLogs, curCalls)
  /\ curCalls' = <<>>
  /\ runPos' = 1
  /\ UNCHANGED <<graph, gpc, arena, tensors, op_execs, dltensors>>
  /\ UNCHANGED <<wsVars, poolVars, extraVars>>

GraphNext == GraphExecutor_new \/ RunCall \/ RunReturn

\* ===========================================================================
\* runtime/array.rs: Tensor::copy and Tensor::to_vec
\* ===========================================================================

\* Bytes in a Storage of the tensors the model copies.
MaxStorageLen == 3

ByteVals == {0, 1}

U8 == [code |-> "uint", bits |-> 8, lanes |-> 1]
I16 == [code |-> "int", bits |-> 16, lanes |-> 1]

\* DataType::itemsize
itemsize(dtype) == (dtype.bits * dtype.lanes) \div 8

RECURSIVE is_contiguous_rfold(_, _, _, _)
\* The rfold of Tensor::is_contiguous over shape.iter().zip(strides), from
\* position k down to the first.
is_contiguous_rfold(shape, strides, k, acc) ==
  IF k = 0 THEN acc
  ELSE is_contiguous_rfold(shape, strides, k - 1,
         [is_contig |-> acc.is_contig /\ strides[k] = acc.expected_stride,
          expected_stride |-> acc.expected_stride * shape[k]])

\* Tensor::is_contiguous
is_contiguous(t) ==
  IF ~IsSome(t.strides) THEN TRUE
  ELSE is_contiguous_rfold(t.shape, Unwrap(t.strides),
                           Min(Len(t.shape), Len(Unwrap(t.strides))),
                           [is_contig |-> TRUE, expected_stride |-> 1]).is_contig

\* Tensor::to_vec::<u8>: numel elements of one byte each, read from
\* data + byte_offset.
to_vec_u8(t) == SubSeq(t.data, t.byte_offset + 1, t.byte_offset + t.numel)

\* ptr.copy_from_nonoverlapping(src, count) on bytes: `count` bytes of `from`
\* starting at its (0-based) position src_at replace those of `into` starting
\* at dst_at.
copy_from_nonoverlapping(into, dst_at, from, src_at, count) ==
  [i \in 1..Len(into) |->
     IF i > dst_at /\ i <= dst_at + count THEN from[src_at + (i - dst_at)]
     ELSE into[i]]

\* Tensor::copy(&mut self, other): None when an assert! panics, else self
\* after the copy. The source pointer is other.data.as_mut_ptr(): the offset
\* by other.byte_offset is commented out in the code.
Tensor_copy(self, other) ==
  IF ~(self.dtype = other.dtype /\ self.numel = other.numel) THEN None
  ELSE IF ~(is_contiguous(self) /\ is_contiguous(other)) THEN None
  ELSE Some([self EXCEPT !.data =
               copy_from_nonoverlapping(self.data, self.byte_offset,
                                        other.data, 0,
                                        other.numel * itemsize(other.dtype))])

\* The tensors the model copies: one dimension, a storage of MaxStorageLen
\* bytes that the tensor's bytes fit in.
CopyTensors(datas) ==
  {t \in [data : datas,
          dtype : {U8, I16},
          shape : {<<n>> : n \in 0..MaxStorageLen},
          strides : {None, Some(<<1>>), Some(<<2>>)},
          byte_offset : 0..MaxStorageLen,
          numel : 0..MaxStorageLen] :
     /\ t.shape = <<t.numel>>
     /\ t.byte_offset + t.numel * itemsize(t.dtype) <= MaxStorageLen}

\* No copy asked for.
CopyIdle ==
  /\ cpDst = None
  /\ cpSrc = None
  /\ cpPc = "idle"

\* A destination whose storage is zeroed and a source of any content.
CopyStart ==
  /\ cpDst \in CopyTensors({[i \in 1..MaxStorageLen |-> 0]})
  /\ cpSrc \in CopyTensors([1..MaxStorageLen -> ByteVals])
  /\ cpPc = "start"

\* dst.copy(&src)
TensorCopy ==
  /\ cpPc = "start"
  /\ LET r == Tensor_copy(cpDst, cpSrc)
     IN IF IsSome(r)
        THEN cpDst' = Unwrap(r) /\ cpPc' = "copied"
        ELSE cpDst' = cpDst /\ cpPc' = "panicked"
  /\ UNCHANGED cpSrc
  /\ UNCHANGED <<coreVars, paramVars, dtypeVars, envVars, barrierVars,
                 packedVars>>

CopyNext == TensorCopy

\* ===========================================================================
\* runtime/graph.rs: the parameter dictionary parser (load_param_dict)
\* ===========================================================================

\* The magic numbers as they lie in a file (little-endian bytes).
\* const NDARRAY_MAGIC: u64 = 0xDD5E40F096B4A13F
NDARRAY_MAGIC == <<63, 161, 180, 150, 240, 64, 94, 221>>
\* const NDARRAY_LIST_MAGIC: u64 = 0xF7E58D4F05049CB7
NDARRAY_LIST_MAGIC == <<183, 156, 4, 5, 79, 141, 229, 247>>

\* A number no length or count of the model reaches: the value of an integer
\* field with a non-zero byte above its lowest two (a negative i64 read `as
\* usize` among them).
Huge == 65536

\* What a nom parser returns: Err (Error or Incomplete), or the value and the
\* position (1-based) of the first byte it has not consumed.
PErr == [status |-> "err"]
POk(value, rest) == [status |-> "ok", value |-> value, rest |-> rest]

\* take!(n)
take(b, pos, n) ==
  IF n > Len(b) - pos + 1 THEN PErr
  ELSE POk(SubSeq(b, pos, pos + n - 1), pos + n)

\* The value of little-endian bytes, Huge when it is 65536 or more.
le_value(bytes) ==
  IF \E i \in 3..Len(bytes) : bytes[i] # 0 THEN Huge
  ELSE bytes[1] + (IF Len(bytes) >= 2 THEN 256 * bytes[2] ELSE 0)

\* Sequencing of parsers, as do_parse! and >> do it: an Err ends the parse,
\* a result r is handed to what follows.
AndThen(r, K(_)) == IF r.status = "err" THEN PErr ELSE K(r)

\* le_u8, le_u16, le_u32, le_i32, le_u64, le_i64 (n bytes), the value read
\* `as usize`.
le_uint(b, pos, n) ==
  AndThen(take(b, pos, n), LAMBDA t : POk(le_value(t.value), t.rest))

\* take!(8) >> bits!(tag_bits!(u64, 64, 0)): any eight bytes, then eight
\* bytes that are all zero.
magic_and_reserved(b, pos) ==
  AndThen(take(b, pos, 8), LAMBDA m :
  AndThen(take(b, m.rest, 8), LAMBDA r :
    IF \E i \in 1..8 : r.value[i] # 0 THEN PErr
    ELSE POk(m.value, r.rest)))

\* Continuation bytes 0x80..0xBF.
IsCont(x) == x >= 128 /\ x <= 191

RECURSIVE from_utf8_ok(_, _)
\* String::from_utf8(b).is_ok(), from position i on.
from_utf8_ok(b, i) ==
  IF i > Len(b) THEN TRUE
  ELSE
  LET x == b[i]
      c(k) == IF i + k <= Len(b) THEN b[i + k] ELSE 0
  IN IF x < 128 THEN from_utf8_ok(b, i + 1)
     ELSE IF x >= 194 /\ x <= 223
       THEN IsCont(c(1)) /\ from_utf8_ok(b, i + 2)
     ELSE IF x = 224
       THEN c(1) >= 160 /\ c(1) <= 191 /\ IsCont(c(2)) /\ from_utf8_ok(b, i + 3)
     ELSE IF (x >= 225 /\ x <= 236) \/ x = 238 \/ x = 239
       THEN IsCont(c(1)) /\ IsCont(c(2)) /\ from_utf8_ok(b, i + 3)
     ELSE IF x = 237
       THEN c(1) >= 128 /\ c(1) <= 159 /\ IsCont(c(2)) /\ from_utf8_ok(b, i + 3)
     ELSE IF x = 240
       THEN c(1) >= 144 /\ c(1) <= 191 /\ IsCont(c(2)) /\ IsCont(c(3))
            /\ from_utf8_ok(b, i + 4)
     ELSE IF x >= 241 /\ x <= 243
       THEN IsCont(c(1)) /\ IsCont(c(2)) /\ IsCont(c(3)) /\ from_utf8_ok(b, i + 4)
     ELSE IF x = 244
       THEN c(1) >= 128 /\ c(1) <= 143 /\ IsCont(c(2)) /\ IsCont(c(3))
            /\ from_utf8_ok(b, i + 4)
     ELSE FALSE

\* name: map_res!(length_bytes!(le_u64), String::from_utf8)
name(b, pos) ==
  AndThen(le_uint(b, pos, 8), LAMBDA n :
  AndThen(take(b, n.rest, n.value), LAMBDA t :
    IF ~from_utf8_ok(t.value, 1) THEN PErr ELSE t))

RECURSIVE count_le_i64(_, _, _, _)
\* count!(map!(le_i64, |sz| sz as usize), n), with acc parsed so far
count_le_i64(b, pos, n, acc) ==
  IF Len(acc) = n THEN POk(acc, pos)
  ELSE AndThen(le_uint(b, pos, 8), LAMBDA e :
         count_le_i64(b, e.rest, n, Append(acc, e.value)))

\* tvm_ctx
tvm_ctx(b, pos) ==
  AndThen(le_uint(b, pos, 4), LAMBDA device_type :
  AndThen(le_uint(b, device_type.rest, 4), LAMBDA device_id :
    POk([device_type |-> device_type.value,
         device_id |-> device_id.value], device_id.rest)))

\* data_type
data_type(b, pos) ==
  AndThen(le_uint(b, pos, 1), LAMBDA code :
  AndThen(le_uint(b, code.rest, 1), LAMBDA bits :
  AndThen(le_uint(b, bits.rest, 2), LAMBDA lanes :
    POk([code |-> code.value, bits |-> bits.value,
         lanes |-> lanes.value], lanes.rest))))

\* tensor
tensor(b, pos) ==
  AndThen(magic_and_reserved(b, pos), LAMBDA head :
  AndThen(tvm_ctx(b, head.rest), LAMBDA ctx :
  AndThen(le_uint(b, ctx.rest, 4), LAMBDA ndim :
  AndThen(data_type(b, ndim.rest), LAMBDA dtype :
  AndThen(count_le_i64(b, dtype.rest, ndim.value, <<>>), LAMBDA shape :
  AndThen(le_uint(b, shape.rest, 8), LAMBDA length :
  AndThen(take(b, length.rest, length.value), LAMBDA data :
    POk([data |-> data.value,
         ctx |-> ctx.value,
         dtype |-> dtype.value,
         shape |-> shape.value,
         strides |-> None,
         byte_offset |-> 0], data.rest))))))))

RECURSIVE count_name(_, _, _, _)
\* count!(name, n)
count_name(b, pos, n, acc) ==
  IF Len(acc) = n THEN POk(acc, pos)
  ELSE AndThen(name(b, pos), LAMBDA e :
         count_name(b, e.rest, n, Append(acc, e.value)))

RECURSIVE count_tensor(_, _, _, _)
\* count!(tensor, n)
count_tensor(b, pos, n, acc) ==
  IF Len(acc) = n THEN POk(acc, pos)
  ELSE AndThen(tensor(b, pos), LAMBDA e :
         count_tensor(b, e.rest, n, Append(acc, e.value)))

\* HashMap::from_iter(names.into_iter().zip(tensors.into_iter())): the zip
\* stops at the shorter; a later entry replaces an earlier one of its name.
HashMap_from_zip(names, tns) ==
  LET k == Min(Len(names), Len(tns))
  IN [nm \in {names[i] : i \in 1..k} |->
        tns[CHOOSE i \in 1..k : names[i] = nm /\ \A j \in (i + 1)..k : names[j] # nm]]

\* parse_param_dict
parse_param_dict(b) ==
  AndThen(magic_and_reserved(b, 1), LAMBDA head :
  AndThen(le_uint(b, head.rest, 8), LAMBDA nnames :
  AndThen(count_name(b, nnames.rest, nnames.value, <<>>), LAMBDA names :
  AndThen(le_uint(b, names.rest, 8), LAMBDA ntensors :
  AndThen(count_tensor(b, ntensors.rest, ntensors.value, <<>>), LAMBDA tns :
    POk(HashMap_from_zip(names.value, tns.value), tns.rest))))))

LoadGraphParamsError(msg) == [status |-> "err", error |-> msg]

\* load_param_dict that does not look at the remaining bytes.
load_param_dict_ignores_rest(bytes) ==
  LET r == parse_param_dict(bytes)
  IN IF r.status = "ok"
     THEN [status |-> "ok", param_dict |-> r.value]
     ELSE LoadGraphParamsError("invalid parameters file")

\* load_param_dict
load_param_dict(bytes) ==
  LET r == parse_param_dict(bytes)
  IN IF r.status = "ok"
     THEN IF Len(bytes) - r.rest + 1 > 0
          THEN LoadGraphParamsError("extra input")
          ELSE [status |-> "ok", param_dict |-> r.value]
     ELSE LoadGraphParamsError("invalid parameters file")

\* ---- the byte strings the model hands to load_param_dict

\* Entries of the containers the model encodes.
MaxParams == 2

\* Names: "a", "bc" and the empty name.
ParamNames == {<<97>>, <<98, 99>>, <<>>}

DTypeFloat32 == [code |-> 2, bits |-> 32, lanes |-> 1]
CpuCtx == [device_type |-> 1, device_id |-> 0]

\* Tensors as load_param_dict returns them: a scalar of one payload byte and
\* a vector of two.
ParamTensors ==
  {[data |-> <<7>>, ctx |-> CpuCtx, dtype |-> DTypeFloat32, shape |-> <<>>,
    strides |-> None, byte_offset |-> 0],
   [data |-> <<1, 2>>, ctx |-> CpuCtx, dtype |-> DTypeFloat32, shape |-> <<2>>,
    strides |-> None, byte_offset |-> 0]}

DistinctSeqs(S, n) ==
  {q \in [1..n -> S] : \A i, j \in 1..n : i # j => q[i] # q[j]}

\* Containers of up to MaxParams entries with distinct names.
Containers ==
  UNION {{[names |-> ns, tensors |-> ts] :
            ns \in DistinctSeqs(ParamNames, n), ts \in [1..n -> ParamTensors]} :
         n \in 0..MaxParams}

Zeros(n) == [i \in 1..n |-> 0]

\* v < 65536 as n little-endian bytes.
LE(v, n) ==
  [i \in 1..n |-> IF i = 1 THEN v % 256 ELSE IF i = 2 THEN v \div 256 ELSE 0]

\* bytes with byte k changed (k = 0: unchanged).
Bump(bytes, k) ==
  IF k = 0 THEN bytes ELSE [bytes EXCEPT ![k] = (bytes[k] + 1) % 256]

RECURSIVE Concat(_)
Concat(qs) == IF qs = <<>> THEN <<>> ELSE Head(qs) \o Concat(Tail(qs))

\* The grammar's `tensor`, with byte mk of the magic and byte rk of the
\* reserved word changed.
EncodeTensor(t, mk, rk) ==
  Bump(NDARRAY_MAGIC, mk) \o Bump(Zeros(8), rk)
  \o LE(t.ctx.device_type, 4) \o LE(t.ctx.device_id, 4)
  \o LE(Len(t.shape), 4)
  \o <<t.dtype.code, t.dtype.bits>> \o LE(t.dtype.lanes, 2)
  \o Concat([i \in 1..Len(t.shape) |-> LE(t.shape[i], 8)])
  \o LE(Len(t.data), 8) \o t.data

\* The grammar's container for c. `which` = 0 and mk / rk change the list
\* header; `which` = i > 0 and mk / rk change the header of tensor i.
Encode(c, which, mk, rk) ==
  Bump(NDARRAY_LIST_MAGIC, IF which = 0 THEN mk ELSE 0)
  \o Bump(Zeros(8), IF which = 0 THEN rk ELSE 0)
  \o LE(Len(c.names), 8)
  \o Concat([i \in 1..Len(c.names) |-> LE(Len(c.names[i]), 8) \o c.names[i]])
  \o LE(Len(c.tensors), 8)
  \o Concat([i \in 1..Len(c.tensors) |->
               EncodeTensor(c.tensors[i], IF which = i THEN mk ELSE 0,
                                          IF which = i THEN rk ELSE 0)])

ParamCase(kind, c) == [kind |-> kind, container |-> c]

\* The inputs: every container as the grammar writes it ("valid"), with
\* bytes appended ("extra"), with a byte of a magic number or of a reserved
\* word changed, and cut short ("truncated").
ParamInputs ==
  UNION {
    {[bytes |-> Encode(c, 0, 0, 0), case |-> ParamCase("valid", c)]}
    \cup {[bytes |-> Encode(c, 0, 0, 0) \o e, case |-> ParamCase("extra", c)] :
            e \in {<<0>>, <<255>>, <<0, 0>>, Encode(c, 0, 0, 0)}}
    \cup {[bytes |-> Encode(c, 0, k, 0), case |-> ParamCase("list_magic", c)] :
            k \in {1, 8}}
    \cup {[bytes |-> Encode(c, 0, 0, k), case |-> ParamCase("list_reserved", c)] :
            k \in {1, 8}}
    \cup {[bytes |-> Encode(c, i, k, 0), case |-> ParamCase("tensor_magic", c)] :
            i \in 1..Len(c.tensors), k \in {1, 8}}
    \cup {[bytes |-> Encode(c, i, 0, k), case |-> ParamCase("tensor_reserved", c)] :
            i \in 1..Len(c.tensors), k \in {1, 8}}
    \cup {[bytes |-> SubSeq(Encode(c, 0, 0, 0), 1, n),
           case |-> ParamCase("truncated", c)] :
            n \in 0..(Len(Encode(c, 0, 0, 0)) - 1)}
    : c \in Containers}

EmptyContainer == [names |-> <<>>, tensors |-> <<>>]

\* No bytes to load.
ParamIdle ==
  /\ pdBytes = <<>>
  /\ pdCase = ParamCase("none", EmptyContainer)
  /\ pdResult = None

ParamStart ==
  \E inp \in ParamInputs :
    /\ pdBytes = inp.bytes
    /\ pdCase = inp.case
    /\ pdResult = None

\* load_param_dict(&bytes)
LoadParamDict ==
  /\ pdCase.kind # "none"
  /\ pdResult = None
  /\ pdResult' = Some(load_param_dict(pdBytes))
  /\ UNCHANGED <<pdBytes, pdCase>>
  /\ UNCHANGED <<coreVars, copyVars, dtypeVars, envVars, barrierVars,
                 packedVars>>

ParamNext == LoadParamDict

\* ===========================================================================
\* runtime/graph.rs: tvm_str_to_type on the strings of the graph's dltype
\* ===========================================================================

Str(kind, bits, lanes) ==
  kind \o bits \o (IF IsSome(lanes) THEN <<"x">> \o Unwrap(lanes) ELSE <<>>)

\* The kinds, widths and lane counts the model writes type strings from.
TypeKinds ==
  {<<"i", "n", "t">>, <<"u", "i", "n", "t">>, <<"f", "l", "o", "a", "t">>,
   <<"b", "o", "o", "l">>, <<"I", "n", "t">>, <<"x">>}
TypeBits ==
  {<<"8">>, <<"2", "4">>, <<"3", "2">>, <<"0", "6", "4">>, <<"1", "1", "1">>,
   <<"2", "5", "5">>, <<"2", "5", "6">>}
TypeLanes ==
  {None, Some(<<"1">>), Some(<<"4", "4">>), Some(<<"6", "5", "5", "3", "5">>),
   Some(<<"6", "5", "5", "3", "6">>)}

\* No string to parse.
DtypeIdle ==
  /\ tyInput = None
  /\ tyStr = <<>>
  /\ tyResult = None

DtypeStart ==
  \E kind \in TypeKinds, bits \in TypeBits, lanes \in TypeLanes :
    /\ tyInput = Some([kind |-> kind, bits |-> bits, lanes |-> lanes])
    /\ tyStr = Str(kind, bits, lanes)
    /\ tyResult = None

\* tvm_str_to_type(CompleteStr(s))
StrToType ==
  /\ IsSome(tyInput)
  /\ tyResult = None
  /\ tyResult' = Some(tvm_str_to_type(tyStr))
  /\ UNCHANGED <<tyInput, tyStr>>
  /\ UNCHANGED <<coreVars, copyVars, paramVars, envVars, barrierVars,
                 packedVars>>

DtypeNext == StrToType

\* ===========================================================================
\* runtime/threading.rs: max_concurrency
\* ===========================================================================

\* usize::from_str_radix(s, 10): None for Err.
usize_from_str_radix(s) ==
  LET digits == IF s # <<>> /\ s[1] = "+" THEN Tail(s) ELSE s
  IN IF digits = <<>> \/ \E i \in 1..Len(digits) : ~IsDigit(digits[i]) THEN None
     ELSE Some(ParseDecimal(digits, 1, Len(digits) + 1, 0))

\* Result::or: the first when it is Ok, else the second.
Result_or(a, b) == IF IsSome(a) THEN a ELSE b

\* max_concurrency that asks OMP_NUM_THREADS first.
max_concurrency_omp_first(tvm, omp, cores) ==
  LET threads_str == Result_or(omp, tvm)
  IN IF IsSome(threads_str) /\ IsSome(usize_from_str_radix(Unwrap(threads_str)))
     THEN Unwrap(usize_from_str_radix(Unwrap(threads_str)))
     ELSE cores

\* max_concurrency (not target_env = "sgx"), given what env::var returns for
\* TVM_NUM_THREADS and OMP_NUM_THREADS and what num_cpus::get_physical returns.
max_concurrency(tvm, omp, cores) ==
  LET threads_str == Result_or(tvm, omp)
  IN IF IsSome(threads_str) /\ IsSome(usize_from_str_radix(Unwrap(threads_str)))
     THEN Unwrap(usize_from_str_radix(Unwrap(threads_str)))
     ELSE cores

\* The values of the two variables the model tries: unset, numbers, and
\* strings that are no number.
EnvValues ==
  {None, Some(<<"4", "2">>), Some(<<"2", "4">>), Some(<<"0">>),
   Some(<<"+", "7">>), Some(<<"a", "b", "c">>), Some(<<>>)}

CoreCounts == {1, 2, 4}

\* max_concurrency not asked.
EnvIdle ==
  /\ envTvm = None
  /\ envOmp = None
  /\ physCores = 1
  /\ mcResult = None

EnvStart ==
  /\ envTvm \in EnvValues
  /\ envOmp \in EnvValues
  /\ physCores \in CoreCounts
  /\ mcResult = None

\* max_concurrency()
MaxConcurrency ==
  /\ mcResult = None
  /\ mcResult' = Some(max_concurrency(envTvm, envOmp, physCores))
  /\ UNCHANGED <<envTvm, envOmp, physCores>>
  /\ UNCHANGED <<coreVars, copyVars, paramVars, dtypeVars, barrierVars,
                 packedVars>>

EnvNext == MaxConcurrency

\* ===========================================================================
\* runtime/threading.rs: the barrier of a job (Job::tasks,
\* TVMBackendParallelBarrier)
\* ===========================================================================

MaxBarrierTasks == 3
MaxRounds == 2

BarrierTasks == 0..(bNumTasks - 1)

\* No job.
BarrierIdle ==
  /\ bNumTasks = 0
  /\ bRounds = 0
  /\ bBarrier = None
  /\ bHandles = <<>>
  /\ bTask = <<>>

\* A job of num_tasks tasks before Job::tasks builds them.
BarrierStart ==
  /\ bNumTasks \in 1..MaxBarrierTasks
  /\ bRounds \in 1..MaxRounds
  /\ bBarrier = None
  /\ bHandles = <<>>
  /\ bTask = [t \in BarrierTasks |->
                [pc |-> "new", calls |-> 0, returns |-> 0, local_gen |-> 0]]

\* Job::tasks, the barrier's side of it. Arc::new(Barrier::new(num_tasks)) is
\* moved into the closure of the map; for each task the closure takes the
\* address of a temporary Arc::clone(&barrier), which is dropped when the
\* closure returns; the closure and with it the last Arc is dropped when
\* collect() is done, which frees the Barrier. Then the tasks run.
JobTasksBarrier ==
  /\ bBarrier = None
  /\ bNumTasks > 0
  /\ bBarrier' = Some([num_threads |-> bNumTasks, count |-> 0,
                       generation_id |-> 0, live |-> FALSE])
  /\ bHandles' = [t \in BarrierTasks |-> [arc_live |-> FALSE]]
  /\ bTask' = [t \in BarrierTasks |-> [bTask[t] EXCEPT !.pc = "run"]]
  /\ UNCHANGED <<bNumTasks, bRounds>>
  /\ UNCHANGED <<coreVars, copyVars, paramVars, dtypeVars, envVars, packedVars>>

\* What reading the barrier through penv.sync_handle can do: with the Arc and
\* the Barrier in place, Barrier::wait; through a dangling pointer (undefined
\* behaviour) the memory may still hold the barrier ("waits"), or the call
\* may come back at once, or bring the process down.
BarrierOutcomes(t) ==
  IF bHandles[t].arc_live /\ Unwrap(bBarrier).live THEN {"waits"}
  ELSE {"waits", "returns", "crashes"}

\* Barrier::wait up to the wait on the condition variable, by task t.
Barrier_wait_enter(t) ==
  LET b == Unwrap(bBarrier)
  IN IF b.count + 1 < b.num_threads
     THEN /\ bBarrier' = Some([b EXCEPT !.count = @ + 1])
          /\ bTask' = [bTask EXCEPT ![t].pc = "waiting",
                                    ![t].calls = @ + 1,
                                    ![t].local_gen = b.generation_id]
     ELSE /\ bBarrier' = Some([b EXCEPT !.count = 0,
                                        !.generation_id = @ + 1])
          /\ bTask' = [bTask EXCEPT ![t].calls = @ + 1,
                                    ![t].returns = @ + 1]

\* The callback of task t calls TVMBackendParallelBarrier(task_id, penv).
ParallelBarrierCall(t) ==
  /\ IsSome(bBarrier)
  /\ bTask[t].pc = "run"
  /\ bTask[t].calls < bRounds
  /\ \E outcome \in BarrierOutcomes(t) :
       CASE outcome = "waits" -> Barrier_wait_enter(t)
         [] outcome = "returns" ->
              /\ bTask' = [bTask EXCEPT ![t].calls = @ + 1, ![t].returns = @ + 1]
              /\ UNCHANGED bBarrier
         [] outcome = "crashes" ->
              /\ bTask' = [bTask EXCEPT ![t].calls = @ + 1, ![t].pc = "crashed"]
              /\ UNCHANGED bBarrier
  /\ UNCHANGED <<bNumTasks, bRounds, bHandles>>
  /\ UNCHANGED <<coreVars, copyVars, paramVars, dtypeVars, envVars, packedVars>>

\* Barrier::wait returns to a task that waited: the generation has moved on.
ParallelBarrierReturn(t) ==
  /\ IsSome(bBarrier)
  /\ bTask[t].pc = "waiting"
  /\ ~(bTask[t].local_gen = Unwrap(bBarrier).generation_id
       /\ Unwrap(bBarrier).count < Unwrap(bBarrier).num_threads)
  /\ bTask' = [bTask EXCEPT ![t].pc = "run", ![t].returns = @ + 1]
  /\ UNCHANGED <<bNumTasks, bRounds, bBarrier, bHandles>>
  /\ UNCHANGED <<coreVars, copyVars, paramVars, dtypeVars, envVars, packedVars>>

\* The callback of task t returns after its last barrier call.
BarrierTaskDone(t) ==
  /\ bTask[t].pc = "run"
  /\ bTask[t].calls = bRounds
  /\ bTask' = [bTask EXCEPT ![t].pc = "done"]
  /\ UNCHANGED <<bNumTasks, bRounds, bBarrier, bHandles>>
  /\ UNCHANGED <<coreVars, copyVars, paramVars, dtypeVars, envVars, packedVars>>

BarrierNext ==
  \/ JobTasksBarrier
  \/ \E t \in BarrierTasks : ParallelBarrierCall(t)
  \/ \E t \in BarrierTasks : ParallelBarrierReturn(t)
  \/ \E t \in BarrierTasks : BarrierTaskDone(t)

\* ===========================================================================
\* runtime/packed_func.rs: wrap_backend_packed_func
\* ===========================================================================

MaxArgs == 2

\* The arguments the model passes: a value and a type code (kInt, kFloat,
\* kArrayHandle as numbered by the C runtime API).
ArgValues == {10, 11}
ArgTypeCodes == {0, 2, 7}
PackedArgs ==
  UNION {[1..n -> [value : ArgValues, type_code : ArgTypeCodes]] : n \in 0..MaxArgs}

\* The two 32-bit words of an i64 (as i32 values), low word first, for a
\* value that fits 32 bits: the high word is the sign extension.
I64Words(x) == <<x, IF x < 0 THEN -1 ELSE 0>>

\* The memory of a Vec<i64> read as an array of i32.
AsI32Array(codes, endian) ==
  Concat([i \in 1..Len(codes) |->
            IF endian = "little" THEN I64Words(codes[i])
            ELSE <<I64Words(codes[i])[2], I64Words(codes[i])[1]>>])

\* TVMRetValue::default()
TVMRetValue_default == [prim_value |-> 0, box_value |-> "unit", type_code |-> 0]

\* What the callable of wrap_backend_packed_func hands the kernel: the
\* values, the number of arguments, and the type codes as the kernel reads
\* them, num_args i32 from the pointer to the Vec<i64>.
wrap_backend_packed_func(args, endian) ==
  LET values == [i \in 1..Len(args) |-> args[i].value]
      codes == [i \in 1..Len(args) |-> args[i].type_code]
  IN [values |-> values,
      type_codes |-> SubSeq(AsI32Array(codes, endian), 1, Len(args)),
      num_args |-> Len(args)]

\* No callable invoked.
PackedIdle ==
  /\ pfArgs = <<>>
  /\ pfEndian = "none"
  /\ pfCalls = <<>>
  /\ pfRet = None

PackedStart ==
  /\ pfArgs \in PackedArgs
  /\ pfEndian \in {"little", "big"}
  /\ pfCalls = <<>>
  /\ pfRet = None

\* The callable is invoked with pfArgs.
PackedCall ==
  /\ pfEndian # "none"
  /\ pfRet = None
  /\ pfCalls' = Append(pfCalls, wrap_backend_packed_func(pfArgs, pfEndian))
  /\ pfRet' = Some(TVMRetValue_default)
  /\ UNCHANGED <<pfArgs, pfEndian>>
  /\ UNCHANGED <<coreVars, copyVars, paramVars, dtypeVars, envVars, barrierVars>>

PackedNext == PackedCall

\* ===========================================================================
\* Specifications
\* ===========================================================================

\* The workspace pool alone: the worker pool has no workers and is never used.
EmptyGraph == MkGraph(<<>>, None, None)

\* The variables of runtime/array.rs and the ones after it before any use.
ExtrasIdle == CopyIdle /\ ParamIdle /\ DtypeIdle /\ EnvIdle /\ BarrierIdle /\ PackedIdle

WsInit == WsNew /\ PoolNew(0) /\ GraphIdle(EmptyGraph) /\ ExtrasIdle
SpecWs == WsInit /\ [][WsNext]_vars

\* The worker pool alone, for every pool size up to MaxWorkers.
PoolInit ==
  WsNew /\ GraphIdle(EmptyGraph) /\ ExtrasIdle /\ \E n \in 0..MaxWorkers : PoolNew(n)
SpecPool == PoolInit /\ [][PoolNext]_vars

\* The threads are scheduled fairly: the thread in launch goes on pushing and
\* polling, and every worker thread that has not panicked goes on with its
\* loop. Nothing obliges the caller to launch another job.
PoolFairness ==
  /\ WF_vars(LaunchPush)
  /\ WF_vars(JobWait)
  /\ \A w \in 0..(MaxWorkers - 1) :
       /\ WF_vars(w \in Workers /\ WorkerPop(w))
       /\ WF_vars(w \in Workers /\ WorkerCall(w))
       /\ WF_vars(w \in Workers /\ WorkerDec(w))
SpecPoolFair == PoolInit /\ [][PoolNext]_vars /\ PoolFairness

\* One executor per graph of Graphs, built once and run up to MaxRuns times.
GraphInit == WsNew /\ PoolNew(0) /\ ExtrasIdle /\ \E g \in Graphs : GraphIdle(g)
SpecGraph == GraphInit /\ [][GraphNext]_vars

\* The three subsystems above before any use.
CoreIdle == WsNew /\ PoolNew(0) /\ GraphIdle(EmptyGraph)

\* One dst.copy(src) for every pair of tensors of CopyTensors.
CopyInit == CoreIdle /\ CopyStart /\ ParamIdle /\ DtypeIdle /\ EnvIdle /\ BarrierIdle /\ PackedIdle
SpecCopy == CopyInit /\ [][CopyNext]_vars

\* One load_param_dict for every byte string of ParamInputs.
ParamInit == CoreIdle /\ CopyIdle /\ ParamStart /\ DtypeIdle /\ EnvIdle /\ BarrierIdle /\ PackedIdle
SpecParam == ParamInit /\ [][ParamNext]_vars

\* One tvm_str_to_type for every string written from TypeKinds, TypeBits and
\* TypeLanes.
DtypeInit ==
  CoreIdle /\ CopyIdle /\ ParamIdle /\ DtypeStart /\ EnvIdle /\ BarrierIdle /\ PackedIdle
SpecDtype == DtypeInit /\ [][DtypeNext]_vars

\* One max_concurrency for every environment of EnvValues and CoreCounts.
EnvInit ==
  CoreIdle /\ CopyIdle /\ ParamIdle /\ DtypeIdle /\ EnvStart /\ BarrierIdle /\ PackedIdle
SpecEnv == EnvInit /\ [][EnvNext]_vars

\* One job of up to MaxBarrierTasks tasks, each calling the barrier up to
\* MaxRounds times.
BarrierInit ==
  /\ CoreIdle /\ CopyIdle /\ ParamIdle /\ DtypeIdle /\ EnvIdle /\ PackedIdle
  /\ BarrierStart
SpecBarrier == BarrierInit /\ [][BarrierNext]_vars

\* One call of a wrapped kernel for every argument list of PackedArgs.
PackedInit ==
  /\ CoreIdle /\ CopyIdle /\ ParamIdle /\ DtypeIdle /\ EnvIdle /\ BarrierIdle
  /\ PackedStart
SpecPacked == PackedInit /\ [][PackedNext]_vars

\* ---------------------------------------------------------------------------
\* Properties of the workspace pool

\* Free-list positions of the blocks of `pool` that satisfy a request.
FitPositions(pool, size, align) ==
  {i \in 1..Len(pool.free) :
     /\ pool.workspaces[pool.free[i] + 1].size >= size
     /\ pool.workspaces[pool.free[i] + 1].align = align}

\* The position of the smallest fitting free block, the first one on ties.
BestFitPosition(pool, size, align) ==
  CHOOSE i \in FitPositions(pool, size, align) :
    \A j \in FitPositions(pool, size, align) :
      LET si == pool.workspaces[pool.free[i] + 1].size
          sj == pool.workspaces[pool.free[j] + 1].size
      IN si < sj \/ (si = sj /\ i <= j)

\* C3: an alloc that finds a fitting free block (size >= request, same align)
\* returns the pointer of the smallest such block (first on ties), moves that
\* block from free to in_use and creates no block.
C3_AllocReusesBestFit ==
  (wsOp.kind = "alloc" /\ FitPositions(wsOp.pre, wsOp.size, wsOp.align) # {}) =>
    LET pos == BestFitPosition(wsOp.pre, wsOp.size, wsOp.align)
        idx == wsOp.pre.free[pos]
    IN /\ wsOp.ret = wsOp.pre.workspaces[idx + 1].ptr
       /\ workspaces = wsOp.pre.workspaces
       /\ free = RemoveAt(wsOp.pre.free, pos)
       /\ in_use = Append(wsOp.pre.in_use, idx)

InUsePositions(pool, ptr) ==
  {i \in 1..Len(pool.in_use) : pool.workspaces[pool.in_use[i] + 1].ptr = ptr}

\* C5: free(ptr) of a pointer in use moves exactly that block from in_use to
\* free and succeeds; free(ptr) of any other pointer (never allocated, or
\* already freed) fails and leaves workspaces, free and in_use unchanged.
C5_FreeMovesOrFails ==
  wsOp.kind = "free" =>
    IF InUsePositions(wsOp.pre, wsOp.ptr) # {}
    THEN \E i \in InUsePositions(wsOp.pre, wsOp.ptr) :
           /\ wsOp.ok
           /\ workspaces = wsOp.pre.workspaces
           /\ in_use = RemoveAt(wsOp.pre.in_use, i)
           /\ free = Append(wsOp.pre.free, wsOp.pre.in_use[i])
    ELSE /\ ~wsOp.ok
         /\ CurPool = wsOp.pre

\* C5's case: a double free. The pointer freed last belongs to a block that an
\* earlier free already moved to the free list, while another block is in use.
C5_Witness ==
  /\ wsOp.kind = "free"
  /\ ~wsOp.ok
  /\ \E i \in 1..Len(free) : workspaces[free[i] + 1].ptr = wsOp.ptr
  /\ Len(in_use) = 1

\* C6: TVMBackendFreeWorkspace returns 0 when the pool's free succeeded and -1
\* when it failed.
C6_FreeWorkspaceReturnCode ==
  wsOp.kind = "free" => wsOp.ret = (IF wsOp.ok THEN 0 ELSE -1)

\* ---------------------------------------------------------------------------
\* Properties of the worker pool

\* C1: when a launch has returned, for every interleaving of the workers and
\* for every launch on the pool, exactly num_tasks callback invocations of that
\* job have completed, one for each task_id in 0..num_tasks-1 and none for any
\* other id, where num_tasks is num_workers for a request of 0 and the smaller
\* of the request and num_workers otherwise.
C1_LaunchReturnsAfterAllTasks ==
  \A j \in 1..returned :
    LET n == IF launched[j] = 0 \/ launched[j] > num_workers
             THEN num_workers ELSE launched[j]
    IN \A t \in DOMAIN invoked[j] :
         invoked[j][t] = (IF t < n THEN 1 ELSE 0)

\* C1's case: on a pool of three workers, whose callbacks all returned 0, a
\* second launch has returned after a first one, both with three tasks.
C1_Witness ==
  /\ num_workers = 3
  /\ returned = 2
  /\ launched = <<0, 3>>
  /\ \A w \in Workers : wpc[w] = "pop"
  /\ \A j \in 1..2 : \A t \in 0..2 : invoked[j][t] = 1

\* C2: the tasks Job::tasks builds for a request req on a pool of num_workers
\* workers: there are num_workers of them when req is 0 and min(req,
\* num_workers) otherwise, their ids are 0..num_tasks-1 in order, each carries
\* penv.num_task = num_tasks, and pending holds num_tasks while no task of the
\* job has been enqueued.
C2_JobTasksDerivation ==
  Len(launched) > 0 =>
    LET req == launched[Len(launched)]
        n == Len(job.tasks)
    IN /\ req = 0 => n = num_workers
       /\ req # 0 => /\ n <= req /\ n <= num_workers
                     /\ n = req \/ n = num_workers
       /\ \A i \in 1..n : /\ job.tasks[i].id = i - 1
                          /\ job.tasks[i].num_task = n
       /\ (mpc # "idle" /\ job.next = 1) => pending[job.id] = n

\* C2's case: a request for more tasks than the pool has workers was clamped to
\* the three workers, and no task has been enqueued yet.
C2_Witness ==
  /\ num_workers = 3
  /\ mpc = "push" /\ job.next = 1
  /\ launched[Len(launched)] = 4
  /\ Len(job.tasks) = 3
  /\ pending[job.id] = 3

\* ---------------------------------------------------------------------------
\* Properties of the graph executor

StorageIds == Unwrap(graph.attrs).storage_id

\* Bytes of the planned tensor i (1-based): itemsize * product(shape).
TensorBytes(i) ==
  ((tensors[i].dtype.bits * tensors[i].dtype.lanes) \div 8) * Product(tensors[i].shape)

\* slot_bytes[S]: the largest tensor that shares storage id S.
SlotBytes(S) ==
  MaxOfSet({0} \cup {TensorBytes(i) : i \in {k \in 1..Len(tensors) : StorageIds[k] = S}})

RECURSIVE SlotOffset(_)
\* offset_S: the sum of slot_bytes[j] for j < S.
SlotOffset(S) == IF S = 0 THEN 0 ELSE SlotOffset(S - 1) + SlotBytes(S - 1)

\* C7: once an executor is built, every tensor with storage id S has
\* byte_offset = offset_S (the sum of slot_bytes[j], j < S), its bytes lie
\* inside the arena, and tensors of different storage ids and non-zero size do
\* not overlap.
C7_StorageOffsetsArePrefixSums ==
  gpc = "ready" =>
    /\ \A i \in 1..Len(tensors) :
         /\ tensors[i].byte_offset = SlotOffset(StorageIds[i])
         /\ tensors[i].byte_offset + TensorBytes(i) <= Unwrap(arena).size
    /\ \A i, k \in 1..Len(tensors) :
         (StorageIds[i] # StorageIds[k] /\ TensorBytes(i) > 0 /\ TensorBytes(k) > 0) =>
           \/ tensors[i].byte_offset + TensorBytes(i) <= tensors[k].byte_offset
           \/ tensors[k].byte_offset + TensorBytes(k) <= tensors[i].byte_offset

\* C8: while the executor exists, the arena allocated during planning is still
\* allocated, and every DLTensor whose address is bound into a closure still
\* exists.
C8_ArenaOutlivesExecutor ==
  gpc = "ready" =>
    /\ IsSome(arena) /\ Unwrap(arena).live
    /\ \A k \in 1..Len(op_execs) : \A i \in 1..Len(op_execs[k].args) :
         dltensors[op_execs[k].args[i].v_handle].live

RECURSIVE NonNullPositions(_, _)
\* The positions (0-based node ids) of the nodes from k on whose op is not
\* "null", in order.
NonNullPositions(nodes, k) ==
  IF k > Len(nodes) THEN <<>>
  ELSE (IF nodes[k].op # "null" THEN <<k - 1>> ELSE <<>>)
       \o NonNullPositions(nodes, k + 1)

\* The tensor indices the arguments of a closure were made from.
ArgTensors(exec) ==
  [i \in 1..Len(exec.args) |-> dltensors[exec.args[i].v_handle].tensor]

\* C9: the arguments bound for the "tvm_op" node at position node_id are, in
\* order, the tensors node_row_ptr[id] + index of its input entries, followed
\* by its outputs, the tensors node_row_ptr[node_id] + 0 .. + num_outputs - 1.
C9_ArgumentOrder ==
  gpc = "ready" =>
    LET ids == NonNullPositions(graph.nodes, 1)
        nrp == Unwrap(graph.node_row_ptr)
    IN \A k \in 1..Len(op_execs) :
         LET node_id == ids[k]
             node == graph.nodes[node_id + 1]
         IN ArgTensors(op_execs[k]) =
              [i \in 1..Len(node.inputs) |->
                 nrp[node.inputs[i].id + 1] + node.inputs[i].index]
              \o [oi \in 1..node.num_outputs |-> nrp[node_id + 1] + (oi - 1)]

\* C10: the kernel calls of every completed run are exactly the kernels of the
\* nodes whose op is not "null", once each, in the order of graph.nodes, with
\* the arguments bound at construction; every run makes the same calls; and
\* the calls of a run in progress are the first ones of that sequence.
C10_RunCallsKernelsInOrder ==
  gpc \in {"ready", "aborted"} =>
    LET ids == NonNullPositions(graph.nodes, 1)
        Expected(calls) ==
          \A k \in 1..Len(calls) :
            /\ calls[k].func = graph.nodes[ids[k] + 1].func_name
            /\ calls[k].args = op_execs[k].args
    IN /\ \A r \in 1..Len(runLogs) :
            /\ Len(runLogs[r]) = Len(ids)
            /\ Expected(runLogs[r])
            /\ runLogs[r] = runLogs[1]
       /\ Len(curCalls) <= Len(ids)
       /\ Expected(curCalls)

\* C10's case: a graph whose first node is "null" and whose second and third
\* are operators has been run twice; each run called the second node's kernel
\* and then the third's.
C10_Witness ==
  /\ gpc = "ready"
  /\ Len(graph.nodes) = 3
  /\ graph.nodes[1].op = "null"
  /\ graph.nodes[2].op = "tvm_op" /\ graph.nodes[3].op = "tvm_op"
  /\ Len(runLogs) = 2
  /\ \A r \in 1..2 :
       /\ Len(runLogs[r]) = 2
       /\ runLogs[r][1].func = graph.nodes[2].func_name
       /\ runLogs[r][2].func = graph.nodes[3].func_name
       /\ runLogs[r][1].func # runLogs[r][2].func

\* ---------------------------------------------------------------------------
\* Properties of Tensor::copy

\* The `count` bytes at data + byte_offset of a tensor.
BytesAt(t, count) == SubSeq(t.data, t.byte_offset + 1, t.byte_offset + count)

\* C11: after dst.copy(src) on contiguous tensors of equal dtype and numel,
\* dst.to_vec::<u8>() equals src.to_vec::<u8>(), and the numel * itemsize
\* bytes at dst.data + dst.byte_offset equal those at src.data +
\* src.byte_offset.
C11_CopyLaw ==
  cpPc = "copied" =>
    /\ to_vec_u8(cpDst) = to_vec_u8(cpSrc)
    /\ BytesAt(cpDst, cpDst.numel * itemsize(cpDst.dtype))
         = BytesAt(cpSrc, cpSrc.numel * itemsize(cpSrc.dtype))

\* ---------------------------------------------------------------------------
\* Properties of load_param_dict

\* The mapping a container stands for: each name to the tensor of its entry.
ExpectedDict(c) ==
  [nm \in {c.names[i] : i \in 1..Len(c.names)} |->
     c.tensors[CHOOSE i \in 1..Len(c.names) : c.names[i] = nm]]

\* C12: on a complete container load_param_dict returns Ok with the
\* name-to-tensor mapping; on the same bytes followed by one or more extra
\* bytes it fails with LoadGraphParams("extra input").
C12_ExtraInputRejected ==
  IsSome(pdResult) =>
    /\ pdCase.kind = "valid" =>
         Unwrap(pdResult) = [status |-> "ok",
                             param_dict |-> ExpectedDict(pdCase.container)]
    /\ pdCase.kind = "extra" =>
         Unwrap(pdResult) = LoadGraphParamsError("extra input")

\* C12's case: a container of two entries followed by extra bytes has been
\* refused as "extra input".
C12_Witness ==
  /\ pdCase.kind = "extra"
  /\ Len(pdCase.container.names) = 2
  /\ pdResult = Some(LoadGraphParamsError("extra input"))

\* C13: load_param_dict fails with LoadGraphParams("invalid parameters
\* file") on an input whose list magic or tensor magic is not the fixed
\* number, whose reserved word is not zero, or that ends too early.
C13_MismatchIsInvalidFile ==
  (IsSome(pdResult)
   /\ pdCase.kind \in {"list_magic", "tensor_magic", "list_reserved",
                       "tensor_reserved", "truncated"})
    => Unwrap(pdResult) = LoadGraphParamsError("invalid parameters file")

\* ---------------------------------------------------------------------------
\* Properties of tvm_str_to_type

RECURSIVE DecimalValue(_)
\* The number a string of decimal digits denotes.
DecimalValue(digits) ==
  IF digits = <<>> THEN 0
  ELSE 10 * DecimalValue(SubSeq(digits, 1, Len(digits) - 1))
       + DigitVal(digits[Len(digits)])

\* C14: tvm_str_to_type on <kind><bits> or <kind><bits>x<lanes> returns the
\* DataType whose code is int, uint or float for those kinds and float for
\* any other, whose bits is the decimal value of <bits> and whose lanes is
\* the decimal value of <lanes>, or 1 without the suffix.
C14_StrToType ==
  IsSome(tyResult) =>
    LET in == Unwrap(tyInput)
        code == IF in.kind = <<"i", "n", "t">> THEN "kDLInt"
                ELSE IF in.kind = <<"u", "i", "n", "t">> THEN "kDLUInt"
                ELSE "kDLFloat"
    IN /\ Unwrap(tyResult).status = "ok"
       /\ Unwrap(tyResult).dtype =
            [code |-> code,
             bits |-> DecimalValue(in.bits),
             lanes |-> IF IsSome(in.lanes) THEN DecimalValue(Unwrap(in.lanes))
                       ELSE 1]

\* ---------------------------------------------------------------------------
\* Properties of max_concurrency

\* A variable that is set to an unsigned decimal number.
IsNumber(v) ==
  /\ IsSome(v)
  /\ Unwrap(v) # <<>>
  /\ \A i \in 1..Len(Unwrap(v)) : IsDigit(Unwrap(v)[i])

\* C15: max_concurrency returns the number TVM_NUM_THREADS is set to; when
\* TVM_NUM_THREADS is not set, the number OMP_NUM_THREADS is set to; when
\* neither is set, the physical core count.
C15_MaxConcurrencyPrecedence ==
  IsSome(mcResult) =>
    /\ IsNumber(envTvm) => Unwrap(mcResult) = DecimalValue(Unwrap(envTvm))
    /\ (~IsSome(envTvm) /\ IsNumber(envOmp)) =>
         Unwrap(mcResult) = DecimalValue(Unwrap(envOmp))
    /\ (~IsSome(envTvm) /\ ~IsSome(envOmp)) => Unwrap(mcResult) = physCores

\* C15's case: TVM_NUM_THREADS=42 and OMP_NUM_THREADS=24 gave 42.
C15_Witness ==
  /\ envTvm = Some(<<"4", "2">>)
  /\ envOmp = Some(<<"2", "4">>)
  /\ mcResult = Some(42)

\* ---------------------------------------------------------------------------
\* Properties of the worker pool's queues and of its progress

\* No callback has returned a non-zero status so far.
AllStatusesZero ==
  \A w \in Workers : wpc[w] # "panicked" /\ wstatus[w] = 0

\* C16: while all callbacks return 0, every inbox holds at most one task
\* (its capacity is 2), the task with id k is only ever in worker k's inbox
\* or hands, every inbox is empty when no launch is under way, and the push
\* that comes next finds room.
C16_InboxAtMostOneTask ==
  AllStatusesZero =>
    /\ \A w \in Workers :
         /\ Len(queues[w]) <= 1
         /\ \A i \in 1..Len(queues[w]) : queues[w][i].id = w
         /\ wtask[w] # NoTask => wtask[w].id = w
    /\ mpc = "idle" => \A w \in Workers : queues[w] = <<>>
    /\ mpc = "push" => Len(queues[job.next - 1]) < QueueCapacity

\* C16's case: in a second launch on a pool of three workers, after a first
\* one that returned, the task with id 2 lies in worker 2's inbox.
C16_Witness ==
  /\ AllStatusesZero
  /\ num_workers = 3
  /\ returned = 1
  /\ mpc = "wait"
  /\ Len(queues[2]) = 1 /\ queues[2][1].id = 2 /\ queues[2][1].job = 2

\* C17: under fair scheduling every launch eventually returns, whatever
\* statuses the callbacks of earlier launches returned.
C17_EveryLaunchReturns ==
  \A n \in 1..MaxLaunches : (Len(launched) >= n) ~> (returned >= n)

\* ---------------------------------------------------------------------------
\* Properties of the barrier of a job

\* C18: for the whole of a job its tasks reach one shared barrier of size
\* num_tasks through penv.sync_handle, and no task returns from its k-th
\* barrier call before all tasks of the job have made their k-th call.
C18_TasksShareBarrier ==
  IsSome(bBarrier) =>
    /\ Unwrap(bBarrier).num_threads = bNumTasks
    /\ \A t \in BarrierTasks :
         bTask[t].pc # "done" =>
           bHandles[t].arc_live /\ Unwrap(bBarrier).live
    /\ \A t, u \in BarrierTasks : bTask[t].returns <= bTask[u].calls

\* ---------------------------------------------------------------------------
\* Properties of the workspace pool's bookkeeping

\* C19: every block index 0..workspaces.len()-1 is exactly once in exactly
\* one of free and in_use, and no call makes the pool hold fewer blocks.
C19_BlocksPartitioned ==
  LET all == free \o in_use
  IN /\ Len(all) = Len(workspaces)
     /\ {all[i] : i \in 1..Len(all)} = 0..(Len(workspaces) - 1)
     /\ wsOp.kind # "none" => Len(workspaces) >= Len(wsOp.pre.workspaces)

\* C19's case: a free has left a pool of two blocks with one block free and
\* one in use.
C19_Witness ==
  /\ wsOp.kind = "free" /\ wsOp.ok
  /\ Len(workspaces) = 2
  /\ Len(free) = 1 /\ Len(in_use) = 1

\* ---------------------------------------------------------------------------
\* Properties of wrap_backend_packed_func

\* C20: invoked with n arguments, the callable calls the kernel once with
\* num_args = n, values[i] = args[i].value and, read as i32 at index i,
\* type_codes[i] = args[i].type_code for every i, and returns a default
\* TVMRetValue.
C20_KernelSeesTypeCodes ==
  IsSome(pfRet) =>
    /\ Len(pfCalls) = 1
    /\ pfCalls[1].num_args = Len(pfArgs)
    /\ \A i \in 1..Len(pfArgs) :
         /\ pfCalls[1].values[i] = pfArgs[i].value
         /\ pfCalls[1].type_codes[i] = pfArgs[i].type_code
    /\ Unwrap(pfRet) = TVMRetValue_default

====
